---------------------------- MODULE Spec2Model ----------------------------
(* Hospital-Management (Django app "core"): the accounts, the role gate,   *)
(* the appointment workflow and billing, as a state machine over the       *)
(* database rows and the session.  One action per view (core/views.py)    *)
(* and per admin-site change form registered in core/admin.py.             *)
EXTENDS Integers, Sequences, FiniteSets, TLC

(* ------------------------------ bounds -------------------------------- *)
MaxUsers == 3
MaxAppts == 1
MaxBills == 1
MaxItems == 2
MaxQuantity == 2
MaxPrice == 2
MaxPrescriptions == 2
MaxRecords == 2
MaxRequests == 2
MaxAvailability == 2
MaxInventory == 2

(* ----------------------------- value sets ----------------------------- *)
ROLE_CHOICES == {"ADMIN", "DOCTOR", "PATIENT"}
STATUS_CHOICES == {"PENDING", "CONFIRMED", "CANCELLED", "COMPLETED"}
APPOINTMENT_TYPE_CHOICES == {"OPD", "FOLLOWUP"}
Methods == {"GET", "POST"}
\* request.user of a browser without a session (AnonymousUser)
Anon == 0
UserIds == 1 .. MaxUsers
ApptIds == 1 .. MaxAppts
\* a date / time field as posted: "" is a missing or malformed value
Dates == {"d1", "d2"}
Times == {"t1", "t2"}
Reasons == {"r1", "r2"}
PostedDates == Dates \cup {""}
PostedTimes == Times \cup {""}
Passwords == {"right", "wrong"}
\* license_number of a DoctorProfile: "" is the CharField's empty default
Licenses == {"L1", "L2"}
\* current_stock / reorder_level of an InventoryItem: 0 and 10 are the
\* fields' defaults
StockLevels == {0, 5, 10}
\* DoctorAvailability.DAY_CHOICES
DAY_CHOICES == {"MON", "TUE", "WED", "THU", "FRI", "SAT", "SUN"}
BILL_STATUS_CHOICES == {"PENDING", "PAID", "PARTIAL", "CANCELLED"}
BillIds == 1 .. MaxBills
ItemIds == 1 .. MaxItems
\* money in cents; a posted quantity of 0 or price of -1 fails the validators
Quantities == 1 .. MaxQuantity
Prices == 0 .. MaxPrice
PostedQuantities == 0 .. MaxQuantity
PostedPrices == -1 .. MaxPrice

VARIABLES
    users,          \* CustomUser rows: id -> [role, is_approved, is_staff]
    user_seq,       \* next CustomUser id (AutoField)
    session,        \* request.user of the portal browser: a user id, or Anon
    doctor_profile, \* DoctorProfile rows: user id -> [license_number]
    patient_profile,\* PatientProfile rows: the ids of the users that have one
    appts,          \* Appointment rows: id -> record
    appt_seq,       \* next Appointment id
    bills,          \* Bill rows: id -> [patient, total_amount, paid_amount, status]
    bill_seq,       \* next Bill id
    items,          \* BillItem rows: id -> [bill, quantity, unit_price, total_price]
    item_seq,       \* next BillItem id
    records,        \* MedicalRecord rows: id -> [patient, doctor, prescriptions]
    record_seq,     \* next MedicalRecord id
    availability,   \* DoctorAvailability rows: id -> [doctor, day_of_week, start_time]
    avail_seq,      \* next DoctorAvailability id
    inventory,      \* InventoryItem rows: id -> [current_stock, reorder_level]
    inventory_seq,  \* next InventoryItem id
    inflight,       \* requests served side by side, request -> record.
                    \* add_bill_item between its two writes: [bill, row, summed],
                    \* row the Bill instance in memory, summed whether its total
                    \* was recomputed.  update_appointment_status: [appt, action,
                    \* new_date, new_time, row, saved], row the Appointment
                    \* instance in memory, saved whether it was written.
                    \* A first GET of doctor_profile_edit / patient_profile_edit:
                    \* [view, user, done, failed].
    resp            \* the response of the last request: [view, result, message]

accounts == <<users, user_seq, doctor_profile, patient_profile>>
appointments == <<appts, appt_seq>>
billing == <<bills, bill_seq, items, item_seq>>
medical == <<records, record_seq>>
schedule == <<availability, avail_seq>>
stock == <<inventory, inventory_seq>>
database == <<accounts, appointments, billing, medical, schedule, stock>>

vars == <<database, session, inflight, resp>>

Response(view, result, message) ==
    [view |-> view, result |-> result, message |-> message]

Without(f, k) == [x \in (DOMAIN f) \ {k} |-> f[x]]

(* ------------------------- CustomUser methods ------------------------- *)
IsUser(u) == u \in DOMAIN users

is_admin_unapproved(u) == users[u].role = "ADMIN"

is_admin(u) == users[u].role = "ADMIN" /\ users[u].is_approved

is_doctor(u) == users[u].role = "DOCTOR" /\ users[u].is_approved

is_patient(u) == users[u].role = "PATIENT" /\ users[u].is_approved

is_authenticated(actor) == actor # Anon

(* ------------------------------ the gate ------------------------------ *)
\* test_func of the three mixins
AdminRequired_test_func(actor) == is_authenticated(actor) /\ is_admin(actor)

DoctorRequired_test_func(actor) == is_authenticated(actor) /\ is_doctor(actor)

PatientRequired_test_func(actor) == is_authenticated(actor) /\ is_patient(actor)

\* LoginRequiredMixin, then UserPassesTestMixin: an anonymous browser is sent
\* to the login page, an authenticated user failing test_func gets
\* PermissionDenied (403).
MixinDispatch(actor, passes) ==
    IF ~is_authenticated(actor) THEN "redirect_login"
    ELSE IF ~passes THEN "403"
    ELSE "permit"

\* @login_required, then "if not request.user.is_X(): messages.error(...);
\* return redirect('dashboard')" of the function views
FunctionViewGate(actor, passes) ==
    IF ~is_authenticated(actor) THEN "redirect_login"
    ELSE IF ~passes THEN "redirect_dashboard"
    ELSE "permit"

DeniedResponse(view, gate) ==
    Response(view, gate,
             IF gate = "redirect_dashboard" THEN "Permission denied." ELSE "")

\* ListView: the page shows the queryset (paginate_by = 20 is above every
\* list here)
ListResponse(view, gate, queryset) ==
    IF gate = "permit" THEN Response(view, "200", "") @@ [object_list |-> queryset]
    ELSE DeniedResponse(view, gate)

\* DetailView.get_object: the row of that pk in the queryset, else Http404
DetailResponse(view, gate, queryset, pk) ==
    IF gate # "permit" THEN DeniedResponse(view, gate)
    ELSE IF pk \in queryset THEN Response(view, "200", "") @@ [object |-> pk]
    ELSE Response(view, "404", "")


(* -------------------------------- Init -------------------------------- *)
\* setup_admin.py has created the first admin account; nothing else exists.
Init ==
    /\ users = (1 :> [role |-> "ADMIN", is_approved |-> TRUE, is_staff |-> TRUE])
    /\ user_seq = 2
    /\ session = Anon
    /\ doctor_profile = << >>
    /\ patient_profile = {}
    /\ appts = << >>
    /\ appt_seq = 1
    /\ bills = << >>
    /\ bill_seq = 1
    /\ items = << >>
    /\ item_seq = 1
    /\ records = << >>
    /\ record_seq = 1
    /\ availability = << >>
    /\ avail_seq = 1
    /\ inventory = << >>
    /\ inventory_seq = 1
    /\ inflight = << >>
    /\ resp = Response("none", "none", "")

(* --------------------------- authentication --------------------------- *)
\* register_view line 37
register_is_approved_posted(posted) == posted

register_is_approved(posted) == FALSE

\* DoctorProfile.objects.create(user=user): license_number is unique and
\* defaults to "", so the insert fails while another profile still holds "".
DoctorProfileInsertFails == \E d \in DOMAIN doctor_profile : doctor_profile[d].license_number = ""

register_view(actor, method, form_valid, role, posted_is_approved) ==
    IF is_authenticated(actor)
    THEN /\ resp' = Response("register", "redirect_dashboard", "")
         /\ UNCHANGED <<database, session, inflight>>
    ELSE IF method = "POST" /\ form_valid
    THEN /\ user_seq <= MaxUsers
         /\ users' = users @@ (user_seq :> [role |-> role,
                                            is_approved |-> register_is_approved(posted_is_approved),
                                            is_staff |-> FALSE])
         /\ user_seq' = user_seq + 1
         /\ IF role = "DOCTOR" /\ ~DoctorProfileInsertFails
            THEN doctor_profile' = doctor_profile @@ (user_seq :> [license_number |-> ""])
            ELSE UNCHANGED doctor_profile
         /\ UNCHANGED patient_profile
         \* PatientProfile.objects.create(user=user) leaves date_of_birth NULL:
         \* the insert always fails, after the account row was written.
         /\ resp' = IF role = "PATIENT" \/ (role = "DOCTOR" /\ DoctorProfileInsertFails)
                    THEN Response("register", "500", "IntegrityError")
                    ELSE Response("register", "redirect_login",
                                  "Registration successful! Please wait for admin approval.")
         /\ UNCHANGED <<session, appointments, billing, medical, schedule, stock, inflight>>
    ELSE /\ resp' = Response("register", "render", "")
         /\ UNCHANGED <<database, session, inflight>>

\* django.contrib.auth.authenticate: the user of that name when the password
\* matches, else None (Anon).  A user's name is its id.
authenticate(username, password) ==
    IF IsUser(username) /\ password = "right" THEN username ELSE Anon

login_allowed_unapproved(user) == TRUE

\* login_view line 65
login_allowed(user) == users[user].is_approved

login_view(actor, method, username, password) ==
    LET user == authenticate(username, password) IN
    IF is_authenticated(actor)
    THEN /\ resp' = Response("login", "redirect_dashboard", "")
         /\ UNCHANGED <<database, session, inflight>>
    ELSE IF method = "POST" /\ user # Anon /\ login_allowed(user)
    THEN /\ session' = user
         /\ resp' = Response("login", "redirect_dashboard", "logged in")
         /\ UNCHANGED <<database, inflight>>
    ELSE /\ resp' = Response("login", "render",
                       IF method = "GET" THEN ""
                       ELSE IF user = Anon THEN "Invalid username or password."
                       ELSE "Your account is pending approval. Please wait for admin approval.")
         /\ UNCHANGED <<database, session, inflight>>

\* LogoutView (urls.py)
logout_view(actor) ==
    /\ is_authenticated(actor)
    /\ session' = Anon
    /\ resp' = Response("logout", "redirect_login", "")
    /\ UNCHANGED <<database, inflight>>

dashboard_view(actor) ==
    /\ resp' = IF ~is_authenticated(actor) THEN Response("dashboard", "redirect_login", "")
               ELSE IF is_admin(actor) THEN Response("dashboard", "redirect_admin_dashboard", "")
               ELSE IF is_doctor(actor) THEN Response("dashboard", "redirect_doctor_dashboard", "")
               ELSE IF is_patient(actor) THEN Response("dashboard", "redirect_patient_dashboard", "")
               ELSE Response("dashboard", "render_pending_approval", "Your account is pending approval.")
    /\ UNCHANGED <<database, session, inflight>>

(* ----------------------------- admin portal --------------------------- *)
\* user.delete(): on_delete=CASCADE of every row owned by the account; the
\* session of a deleted account no longer authenticates.
DeleteUserRowOnly(u) ==
    /\ users' = Without(users, u)
    /\ session' = IF session = u THEN Anon ELSE session
    /\ UNCHANGED <<doctor_profile, patient_profile, appts, bills, items, records, availability>>

UnapproveUser(u) ==
    /\ users' = [users EXCEPT ![u].is_approved = FALSE]
    /\ UNCHANGED <<session, doctor_profile, patient_profile, appts, bills, items, records, availability>>

DeleteUser(u) ==
    /\ users' = Without(users, u)
    /\ session' = IF session = u THEN Anon ELSE session
    /\ doctor_profile' = [d \in (DOMAIN doctor_profile) \ {u} |-> doctor_profile[d]]
    /\ patient_profile' = patient_profile \ {u}
    /\ appts' = [a \in {x \in DOMAIN appts : appts[x].patient # u /\ appts[x].doctor # u} |-> appts[a]]
    /\ bills' = [b \in {x \in DOMAIN bills : bills[x].patient # u} |-> bills[b]]
    /\ items' = [i \in {x \in DOMAIN items : bills[items[x].bill].patient # u} |-> items[i]]
    /\ records' = [r \in {x \in DOMAIN records : records[x].patient # u /\ records[x].doctor # u}
                     |-> records[r]]
    /\ availability' = [a \in {x \in DOMAIN availability : availability[x].doctor # u}
                          |-> availability[a]]

approve_user(actor, user_id, method, action) ==
    LET gate == FunctionViewGate(actor, is_admin(actor)) IN
    IF gate # "permit"
    THEN /\ resp' = DeniedResponse("approve_user", gate)
         /\ UNCHANGED <<database, session, inflight>>
    ELSE IF ~IsUser(user_id)
    THEN /\ resp' = Response("approve_user", "404", "")
         /\ UNCHANGED <<database, session, inflight>>
    ELSE IF method = "POST" /\ action = "approve"
    THEN /\ users' = [users EXCEPT ![user_id].is_approved = TRUE]
         /\ resp' = Response("approve_user", "redirect_user_management", "has been approved.")
         /\ UNCHANGED <<user_seq, session, doctor_profile, patient_profile, appointments, billing, medical, schedule, stock, inflight>>
    ELSE IF method = "POST" /\ action = "reject"
    THEN /\ DeleteUser(user_id)
         /\ resp' = Response("approve_user", "redirect_user_management", "has been rejected and deleted.")
         /\ UNCHANGED <<user_seq, appt_seq, bill_seq, item_seq, record_seq, avail_seq, stock, inflight>>
    ELSE /\ resp' = Response("approve_user", "redirect_user_management", "")
         /\ UNCHANGED <<database, session, inflight>>

\* AdminDashboardView and the other read-only AdminRequiredMixin views
is_low_stock_strict(item) == item.current_stock < item.reorder_level

is_low_stock_above(item) == item.current_stock >= item.reorder_level

\* InventoryItem.is_low_stock
is_low_stock(item) == item.current_stock <= item.reorder_level

\* queryset.filter(current_stock__lte=F('reorder_level'))
filter_current_stock_lte_reorder_level(queryset) ==
    {i \in queryset : inventory[i].current_stock <= inventory[i].reorder_level}

\* the response carries context['low_stock_items'], the count of the
\* filtered queryset
AdminDashboardView(actor) ==
    LET gate == MixinDispatch(actor, AdminRequired_test_func(actor)) IN
    /\ resp' = IF gate = "permit"
               THEN Response("admin_dashboard", "200", "")
                    @@ [low_stock_items |->
                          Cardinality(filter_current_stock_lte_reorder_level(DOMAIN inventory))]
               ELSE DeniedResponse("admin_dashboard", gate)
    /\ UNCHANGED <<database, session, inflight>>

\* InventoryListView.get_queryset: every item, narrowed when the query string
\* has low_stock=true; the response carries the query string and the list.
InventoryListView(actor, low_stock) ==
    LET gate == MixinDispatch(actor, AdminRequired_test_func(actor)) IN
    /\ resp' = IF gate = "permit"
               THEN Response("inventory_list", "200", "")
                    @@ [low_stock |-> low_stock,
                        object_list |->
                          IF low_stock = "true"
                          THEN filter_current_stock_lte_reorder_level(DOMAIN inventory)
                          ELSE DOMAIN inventory]
               ELSE DeniedResponse("inventory_list", gate)
    /\ UNCHANGED <<database, session, inflight>>

\* InventoryItemForm: MinValueValidator(0) on both integer fields
InventoryItemForm_is_valid(current_stock, reorder_level) ==
    current_stock >= 0 /\ reorder_level >= 0

InventoryCreateView(actor, method, current_stock, reorder_level) ==
    LET gate == MixinDispatch(actor, AdminRequired_test_func(actor)) IN
    IF gate # "permit"
    THEN /\ resp' = DeniedResponse("inventory_create", gate)
         /\ UNCHANGED <<database, session, inflight>>
    ELSE IF method = "POST" /\ InventoryItemForm_is_valid(current_stock, reorder_level)
    THEN /\ inventory_seq <= MaxInventory
         /\ inventory' = inventory @@ (inventory_seq :>
                [current_stock |-> current_stock, reorder_level |-> reorder_level])
         /\ inventory_seq' = inventory_seq + 1
         /\ resp' = Response("inventory_create", "redirect_inventory_list", "")
         /\ UNCHANGED <<accounts, session, appointments, billing, medical, schedule, inflight>>
    ELSE /\ resp' = Response("inventory_create", "render", "")
         /\ UNCHANGED <<database, session, inflight>>

InventoryUpdateView(actor, pk, method, current_stock, reorder_level) ==
    LET gate == MixinDispatch(actor, AdminRequired_test_func(actor)) IN
    IF gate # "permit"
    THEN /\ resp' = DeniedResponse("inventory_update", gate)
         /\ UNCHANGED <<database, session, inflight>>
    ELSE IF pk \notin DOMAIN inventory
    THEN /\ resp' = Response("inventory_update", "404", "")
         /\ UNCHANGED <<database, session, inflight>>
    ELSE IF method = "POST" /\ InventoryItemForm_is_valid(current_stock, reorder_level)
    THEN /\ inventory' = [inventory EXCEPT ![pk] =
                            [current_stock |-> current_stock, reorder_level |-> reorder_level]]
         /\ resp' = Response("inventory_update", "redirect_inventory_list", "")
         /\ UNCHANGED <<accounts, session, appointments, billing, medical, schedule, inventory_seq, inflight>>
    ELSE /\ resp' = Response("inventory_update", "render", "")
         /\ UNCHANGED <<database, session, inflight>>

(* ---------------------------- patient portal -------------------------- *)
\* AppointmentForm.__init__: the doctors the form accepts
AppointmentForm_doctor_queryset_any == DOMAIN users

AppointmentForm_doctor_queryset ==
    {u \in DOMAIN users : users[u].role = "DOCTOR" /\ users[u].is_approved}

\* AppointmentForm.Meta.fields: doctor, appointment_date, appointment_time,
\* appointment_type, reason; date and time are required fields.
AppointmentForm_is_valid(doctor, date, time) ==
    /\ doctor \in AppointmentForm_doctor_queryset
    /\ date \in Dates
    /\ time \in Times

\* PatientAppointmentCreateView.form_valid lines 553-554: status and patient
\* are not form fields; whatever the request posts for them is not read.
form_valid_status_posted(posted_status) == posted_status

form_valid_status(posted_status) == "PENDING"

form_valid_patient_posted(actor, posted_patient) == posted_patient

form_valid_patient(actor, posted_patient) == actor

PatientAppointmentCreateView(actor, method, doctor, date, time, type, reason, posted_status, posted_patient) ==
    LET gate == MixinDispatch(actor, PatientRequired_test_func(actor)) IN
    IF gate # "permit"
    THEN /\ resp' = DeniedResponse("patient_appointment_create", gate)
         /\ UNCHANGED <<database, session, inflight>>
    ELSE IF method = "POST" /\ AppointmentForm_is_valid(doctor, date, time)
    THEN /\ appt_seq <= MaxAppts
         /\ appts' = appts @@ (appt_seq :>
                [patient |-> form_valid_patient(actor, posted_patient),
                 doctor |-> doctor,
                 appointment_date |-> date,
                 appointment_time |-> time,
                 status |-> form_valid_status(posted_status),
                 appointment_type |-> type,
                 reason |-> reason])
         /\ appt_seq' = appt_seq + 1
         /\ resp' = Response("patient_appointment_create", "redirect_patient_appointments",
                             "Appointment requested. Please wait for doctor confirmation.")
         /\ UNCHANGED <<accounts, session, billing, medical, schedule, stock, inflight>>
    ELSE /\ resp' = Response("patient_appointment_create", "render", "")
         /\ UNCHANGED <<database, session, inflight>>

\* Appointment.objects.filter(patient=self.request.user)
PatientAppointmentListView_get_queryset(actor) ==
    {a \in DOMAIN appts : appts[a].patient = actor}

PatientAppointmentListView(actor) ==
    /\ resp' = ListResponse("patient_appointments",
                            MixinDispatch(actor, PatientRequired_test_func(actor)),
                            PatientAppointmentListView_get_queryset(actor))
    /\ UNCHANGED <<database, session, inflight>>

\* MedicalRecord.objects.filter(patient=self.request.user), of the list and
\* of the detail view
PatientMedicalRecordListView_get_queryset(actor) ==
    {r \in DOMAIN records : records[r].patient = actor}

PatientMedicalRecordListView(actor) ==
    /\ resp' = ListResponse("patient_medical_records",
                            MixinDispatch(actor, PatientRequired_test_func(actor)),
                            PatientMedicalRecordListView_get_queryset(actor))
    /\ UNCHANGED <<database, session, inflight>>

PatientMedicalRecordDetailView(actor, pk) ==
    /\ resp' = DetailResponse("patient_medical_record_detail",
                              MixinDispatch(actor, PatientRequired_test_func(actor)),
                              PatientMedicalRecordListView_get_queryset(actor), pk)
    /\ UNCHANGED <<database, session, inflight>>

\* Bill.objects.filter(patient=self.request.user), of the list and of the
\* detail view
PatientBillListView_get_queryset(actor) ==
    {b \in DOMAIN bills : bills[b].patient = actor}

PatientBillListView(actor) ==
    /\ resp' = ListResponse("patient_bills",
                            MixinDispatch(actor, PatientRequired_test_func(actor)),
                            PatientBillListView_get_queryset(actor))
    /\ UNCHANGED <<database, session, inflight>>

PatientBillDetailView(actor, pk) ==
    /\ resp' = DetailResponse("patient_bill_detail",
                              MixinDispatch(actor, PatientRequired_test_func(actor)),
                              PatientBillListView_get_queryset(actor), pk)
    /\ UNCHANGED <<database, session, inflight>>

(* ----------------------------- doctor portal -------------------------- *)
\* Appointment.objects.filter(doctor=self.request.user)
DoctorAppointmentListView_get_queryset(actor) ==
    {a \in DOMAIN appts : appts[a].doctor = actor}

DoctorAppointmentListView(actor) ==
    /\ resp' = ListResponse("doctor_appointments",
                            MixinDispatch(actor, DoctorRequired_test_func(actor)),
                            DoctorAppointmentListView_get_queryset(actor))
    /\ UNCHANGED <<database, session, inflight>>

\* The patient query parameter of the medical-record list: NoParam is an
\* absent or empty value, NotANumber a value int() refuses, any other value
\* an id.
NoParam == 0
NotANumber == -1

MedicalRecordListView_get_queryset_patient_first(actor, patient_id) ==
    IF patient_id = NoParam THEN {r \in DOMAIN records : records[r].doctor = actor}
    ELSE {r \in DOMAIN records : records[r].patient = patient_id}

\* MedicalRecord.objects.filter(doctor=self.request.user), then
\* "if patient_id: queryset = queryset.filter(patient_id=patient_id)"
MedicalRecordListView_get_queryset(actor, patient_id) ==
    IF patient_id = NoParam THEN {r \in DOMAIN records : records[r].doctor = actor}
    ELSE {r \in DOMAIN records : records[r].doctor = actor /\ records[r].patient = patient_id}

\* filter(patient_id=...) raises ValueError for a value that is not a number
MedicalRecordListView(actor, patient_id) ==
    LET gate == MixinDispatch(actor, DoctorRequired_test_func(actor)) IN
    /\ resp' = IF gate = "permit" /\ patient_id = NotANumber
               THEN Response("doctor_medical_records", "500", "ValueError")
               ELSE IF gate = "permit"
               THEN ListResponse("doctor_medical_records", gate,
                                 MedicalRecordListView_get_queryset(actor, patient_id))
                    @@ [patient |-> patient_id]
               ELSE DeniedResponse("doctor_medical_records", gate)
    /\ UNCHANGED <<database, session, inflight>>

\* MedicalRecord.objects.filter(doctor=self.request.user)
MedicalRecordDetailView_get_queryset(actor) ==
    {r \in DOMAIN records : records[r].doctor = actor}

MedicalRecordDetailView(actor, pk) ==
    /\ resp' = DetailResponse("doctor_medical_record_detail",
                              MixinDispatch(actor, DoctorRequired_test_func(actor)),
                              MedicalRecordDetailView_get_queryset(actor), pk)
    /\ UNCHANGED <<database, session, inflight>>

\* MedicalRecordForm.__init__: the patients a doctor may choose, those with
\* a CONFIRMED or COMPLETED appointment with that doctor
MedicalRecordForm_patient_queryset(user) ==
    {u \in DOMAIN users :
        /\ users[u].role = "PATIENT"
        /\ \E a \in DOMAIN appts :
              /\ appts[a].patient = u
              /\ appts[a].doctor = user
              /\ appts[a].status \in {"CONFIRMED", "COMPLETED"}}

\* form_valid sets doctor = request.user; a patient outside the form's
\* queryset is an invalid choice
MedicalRecordCreateView(actor, method, patient) ==
    LET gate == MixinDispatch(actor, DoctorRequired_test_func(actor)) IN
    IF gate # "permit"
    THEN /\ resp' = DeniedResponse("doctor_medical_record_create", gate)
         /\ UNCHANGED <<database, session, inflight>>
    ELSE IF method = "POST" /\ patient \in MedicalRecordForm_patient_queryset(actor)
    THEN /\ record_seq <= MaxRecords
         /\ records' = records @@ (record_seq :>
                [patient |-> patient, doctor |-> actor, prescriptions |-> 0])
         /\ record_seq' = record_seq + 1
         /\ resp' = Response("doctor_medical_record_create", "redirect_doctor_medical_records", "")
         /\ UNCHANGED <<accounts, session, appointments, billing, schedule, stock, inflight>>
    ELSE /\ resp' = Response("doctor_medical_record_create", "render", "")
         /\ UNCHANGED <<database, session, inflight>>

\* get_object_or_404(Appointment, id=appointment_id, doctor=request.user)
appointment_found_any_doctor(actor, appointment_id) == appointment_id \in DOMAIN appts

appointment_found(actor, appointment_id) ==
    appointment_id \in DOMAIN appts /\ appts[appointment_id].doctor = actor

\* the three branches of update_appointment_status
confirmed(appt) == [appt EXCEPT !.status = "CONFIRMED"]

cancelled(appt) == [appt EXCEPT !.status = "CANCELLED"]

rescheduled_keeps_status(appt, new_date, new_time) ==
    [appt EXCEPT !.appointment_date = new_date, !.appointment_time = new_time]

rescheduled(appt, new_date, new_time) ==
    [appt EXCEPT !.appointment_date = new_date,
                 !.appointment_time = new_time,
                 !.status = "PENDING"]

\* appointment.save() of a row whose date or time is None or unparsable raises
AppointmentSaveRaises(appt) ==
    appt.appointment_date \notin Dates \/ appt.appointment_time \notin Times

UpdateActions == {"confirm", "cancel", "reschedule", "other"}

update_appointment_status(actor, appointment_id, method, action, new_date, new_time) ==
    LET gate == FunctionViewGate(actor, is_doctor(actor)) IN
    IF gate # "permit"
    THEN /\ resp' = DeniedResponse("update_appointment_status", gate)
         /\ UNCHANGED <<database, session, inflight>>
    ELSE IF ~appointment_found(actor, appointment_id)
    THEN /\ resp' = Response("update_appointment_status", "404", "")
         /\ UNCHANGED <<database, session, inflight>>
    ELSE IF method = "POST" /\ action = "confirm"
    THEN /\ appts' = [appts EXCEPT ![appointment_id] = confirmed(@)]
         /\ resp' = Response("update_appointment_status", "redirect_doctor_appointments",
                             "Appointment confirmed.")
         /\ UNCHANGED <<accounts, session, appt_seq, billing, medical, schedule, stock, inflight>>
    ELSE IF method = "POST" /\ action = "cancel"
    THEN /\ appts' = [appts EXCEPT ![appointment_id] = cancelled(@)]
         /\ resp' = Response("update_appointment_status", "redirect_doctor_appointments",
                             "Appointment cancelled.")
         /\ UNCHANGED <<accounts, session, appt_seq, billing, medical, schedule, stock, inflight>>
    ELSE IF method = "POST" /\ action = "reschedule"
    THEN LET new == rescheduled(appts[appointment_id], new_date, new_time) IN
         IF AppointmentSaveRaises(new)
         THEN /\ resp' = Response("update_appointment_status", "500", "ValidationError")
              /\ UNCHANGED <<database, session, inflight>>
         ELSE /\ appts' = [appts EXCEPT ![appointment_id] = new]
              /\ resp' = Response("update_appointment_status", "redirect_doctor_appointments",
                                  "Appointment rescheduled.")
              /\ UNCHANGED <<accounts, session, appt_seq, billing, medical, schedule, stock, inflight>>
    ELSE /\ resp' = Response("update_appointment_status", "redirect_doctor_appointments", "")
         /\ UNCHANGED <<database, session, inflight>>

\* update_appointment_status as the server runs it beside other requests:
\* the view loads the appointment (line 369) and assigns the new fields to
\* the instance in memory (lines 373-384) ...
update_appointment_status_load(actor, request, appointment_id, action, new_date, new_time) ==
    /\ FunctionViewGate(actor, is_doctor(actor)) = "permit"
    /\ appointment_found(actor, appointment_id)
    /\ request \notin DOMAIN inflight
    /\ action \in {"confirm", "cancel", "reschedule"}
    /\ inflight' = inflight @@ (request :>
            [appt |-> appointment_id, action |-> action,
             new_date |-> new_date, new_time |-> new_time,
             row |-> CASE action = "confirm" -> confirmed(appts[appointment_id])
                       [] action = "cancel" -> cancelled(appts[appointment_id])
                       [] action = "reschedule" ->
                            rescheduled(appts[appointment_id], new_date, new_time),
             saved |-> FALSE])
    /\ UNCHANGED <<database, session, resp>>

\* ... and appointment.save() writes every column of the instance (lines
\* 375, 379, 385); a date or time that does not parse raises and nothing is
\* written.
update_appointment_status_save(request) ==
    /\ request \in DOMAIN inflight
    /\ ~inflight[request].saved
    /\ inflight[request].appt \in DOMAIN appts
    /\ inflight' = [inflight EXCEPT ![request].saved = TRUE]
    /\ IF AppointmentSaveRaises(inflight[request].row)
       THEN /\ resp' = Response("update_appointment_status", "500", "ValidationError")
            /\ UNCHANGED <<database, session>>
       ELSE /\ appts' = [appts EXCEPT ![inflight[request].appt] = inflight[request].row]
            /\ resp' = Response("update_appointment_status", "redirect_doctor_appointments",
                                CASE inflight[request].action = "confirm" -> "Appointment confirmed."
                                  [] inflight[request].action = "cancel" -> "Appointment cancelled."
                                  [] OTHER -> "Appointment rescheduled.")
            /\ UNCHANGED <<accounts, session, appt_seq, billing, medical, schedule, stock>>

(* --------------------------- profile management ----------------------- *)
\* DoctorProfileForm: license_number is required and unique
DoctorProfileForm_is_valid(user, license) ==
    /\ license \in Licenses
    /\ \A d \in (DOMAIN doctor_profile) \ {user} : doctor_profile[d].license_number # license

doctor_profile_edit(actor, method, license) ==
    LET gate == FunctionViewGate(actor, is_doctor(actor)) IN
    IF gate # "permit"
    THEN /\ resp' = DeniedResponse("doctor_profile_edit", gate)
         /\ UNCHANGED <<database, session, inflight>>
    ELSE IF actor \notin DOMAIN doctor_profile /\ DoctorProfileInsertFails
    THEN /\ resp' = Response("doctor_profile_edit", "500", "IntegrityError")
         /\ UNCHANGED <<database, session, inflight>>
    ELSE IF method = "POST" /\ DoctorProfileForm_is_valid(actor, license)
    THEN /\ doctor_profile' = [d \in (DOMAIN doctor_profile) \cup {actor} |->
                                 IF d = actor THEN [license_number |-> license]
                                 ELSE doctor_profile[d]]
         /\ resp' = Response("doctor_profile_edit", "redirect_doctor_dashboard",
                             "Profile updated successfully.")
         /\ UNCHANGED <<users, user_seq, patient_profile, session, appointments, billing, medical, schedule, stock, inflight>>
    ELSE /\ doctor_profile' = [d \in (DOMAIN doctor_profile) \cup {actor} |->
                                 IF d \in DOMAIN doctor_profile THEN doctor_profile[d]
                                 ELSE [license_number |-> ""]]
         /\ resp' = Response("doctor_profile_edit", "render", "")
         /\ UNCHANGED <<users, user_seq, patient_profile, session, appointments, billing, medical, schedule, stock, inflight>>

\* A first GET of doctor_profile_edit as the server runs it beside other
\* requests: request.user.doctor_profile raises DoesNotExist (lines 610-612)
\* ...
doctor_profile_edit_check(actor, request) ==
    /\ FunctionViewGate(actor, is_doctor(actor)) = "permit"
    /\ actor \notin DOMAIN doctor_profile
    /\ request \notin DOMAIN inflight
    /\ inflight' = inflight @@ (request :> [view |-> "doctor_profile_edit", user |-> actor,
                                            done |-> FALSE, failed |-> FALSE])
    /\ UNCHANGED <<database, session, resp>>

\* ... and DoctorProfile.objects.create(user=request.user) inserts the row
\* (line 613): user is one-to-one and license_number unique, so the insert
\* raises when the account has a profile by now or another profile holds "".
doctor_profile_edit_create(request) ==
    /\ request \in DOMAIN inflight
    /\ inflight[request].view = "doctor_profile_edit"
    /\ ~inflight[request].done
    /\ IF inflight[request].user \in DOMAIN doctor_profile \/ DoctorProfileInsertFails
       THEN /\ inflight' = [inflight EXCEPT ![request].done = TRUE, ![request].failed = TRUE]
            /\ resp' = Response("doctor_profile_edit", "500", "IntegrityError")
            /\ UNCHANGED <<database, session>>
       ELSE /\ inflight' = [inflight EXCEPT ![request].done = TRUE]
            /\ doctor_profile' = doctor_profile @@
                                    (inflight[request].user :> [license_number |-> ""])
            /\ resp' = Response("doctor_profile_edit", "render", "")
            /\ UNCHANGED <<users, user_seq, patient_profile, session, appointments, billing, medical, schedule, stock>>

\* The same for patient_profile_edit (lines 634-637): the insert leaves
\* date_of_birth NULL and raises whatever else is stored.
patient_profile_edit_check(actor, request) ==
    /\ FunctionViewGate(actor, is_patient(actor)) = "permit"
    /\ actor \notin patient_profile
    /\ request \notin DOMAIN inflight
    /\ inflight' = inflight @@ (request :> [view |-> "patient_profile_edit", user |-> actor,
                                            done |-> FALSE, failed |-> FALSE])
    /\ UNCHANGED <<database, session, resp>>

patient_profile_edit_create(request) ==
    /\ request \in DOMAIN inflight
    /\ inflight[request].view = "patient_profile_edit"
    /\ ~inflight[request].done
    /\ inflight' = [inflight EXCEPT ![request].done = TRUE, ![request].failed = TRUE]
    /\ resp' = Response("patient_profile_edit", "500", "IntegrityError")
    /\ UNCHANGED <<database, session>>

\* get_object_or_404(MedicalRecord, id=record_id, doctor=request.user)
record_found(actor, record_id) ==
    record_id \in DOMAIN records /\ records[record_id].doctor = actor

add_prescription(actor, record_id, method, form_valid) ==
    LET gate == FunctionViewGate(actor, is_doctor(actor)) IN
    IF gate # "permit"
    THEN /\ resp' = DeniedResponse("add_prescription", gate)
         /\ UNCHANGED <<database, session, inflight>>
    ELSE IF ~record_found(actor, record_id)
    THEN /\ resp' = Response("add_prescription", "404", "")
         /\ UNCHANGED <<database, session, inflight>>
    ELSE IF method = "POST" /\ form_valid
    THEN /\ records[record_id].prescriptions < MaxPrescriptions
         /\ records' = [records EXCEPT ![record_id].prescriptions = @ + 1]
         /\ resp' = Response("add_prescription", "redirect_doctor_medical_record_detail",
                             "Prescription added.")
         /\ UNCHANGED <<accounts, session, appointments, billing, record_seq, schedule, stock, inflight>>
    ELSE /\ resp' = Response("add_prescription", "render", "")
         /\ UNCHANGED <<database, session, inflight>>

\* PatientProfile.objects.create(user=request.user) leaves date_of_birth NULL
\* and raises; an existing profile is edited in place.
patient_profile_edit(actor, method, form_valid) ==
    LET gate == FunctionViewGate(actor, is_patient(actor)) IN
    /\ resp' = IF gate # "permit" THEN DeniedResponse("patient_profile_edit", gate)
               ELSE IF actor \notin patient_profile
               THEN Response("patient_profile_edit", "500", "IntegrityError")
               ELSE IF method = "POST" /\ form_valid
               THEN Response("patient_profile_edit", "redirect_patient_dashboard",
                             "Profile updated successfully.")
               ELSE Response("patient_profile_edit", "render", "")
    /\ UNCHANGED <<database, session, inflight>>

(* --------------------------- doctor availability ---------------------- *)
\* DoctorAvailabilityForm: day_of_week among the choices, start_time a time.
\* The form has no doctor field, so ModelForm validation leaves out the
\* unique_together check, which names doctor.
DoctorAvailabilityForm_is_valid(day_of_week, start_time) ==
    day_of_week \in DAY_CHOICES /\ start_time \in Times

\* unique_together = ['doctor', 'day_of_week', 'start_time'], kept by the
\* database: the insert of a second row with the same key raises.
DoctorAvailabilityInsertFails(doctor, day_of_week, start_time) ==
    \E a \in DOMAIN availability :
        /\ availability[a].doctor = doctor
        /\ availability[a].day_of_week = day_of_week
        /\ availability[a].start_time = start_time

DoctorAvailabilityListView(actor) ==
    LET gate == MixinDispatch(actor, DoctorRequired_test_func(actor)) IN
    /\ resp' = IF gate = "permit" THEN Response("doctor_availability", "200", "")
               ELSE DeniedResponse("doctor_availability", gate)
    /\ UNCHANGED <<database, session, inflight>>

DoctorAvailabilityCreateView(actor, method, day_of_week, start_time) ==
    LET gate == MixinDispatch(actor, DoctorRequired_test_func(actor)) IN
    IF gate # "permit"
    THEN /\ resp' = DeniedResponse("doctor_availability_add", gate)
         /\ UNCHANGED <<database, session, inflight>>
    ELSE IF method = "GET" \/ ~DoctorAvailabilityForm_is_valid(day_of_week, start_time)
    THEN /\ resp' = Response("doctor_availability_add", "render", "")
         /\ UNCHANGED <<database, session, inflight>>
    ELSE IF actor \notin DOMAIN doctor_profile
    THEN /\ resp' = Response("doctor_availability_add", "redirect_doctor_profile_edit",
                             "Please complete your doctor profile first.")
         /\ UNCHANGED <<database, session, inflight>>
    ELSE IF DoctorAvailabilityInsertFails(actor, day_of_week, start_time)
    THEN /\ resp' = Response("doctor_availability_add", "500", "IntegrityError")
         /\ UNCHANGED <<database, session, inflight>>
    ELSE /\ avail_seq <= MaxAvailability
         /\ availability' = availability @@ (avail_seq :>
                [doctor |-> actor, day_of_week |-> day_of_week, start_time |-> start_time])
         /\ avail_seq' = avail_seq + 1
         /\ resp' = Response("doctor_availability_add", "redirect_doctor_availability", "")
         /\ UNCHANGED <<accounts, session, appointments, billing, medical, stock, inflight>>

(* -------------------------------- billing ----------------------------- *)
RECURSIVE SumTotalPrice(_, _)
SumTotalPrice(its, S) ==
    IF S = {} THEN 0
    ELSE LET i == CHOOSE x \in S : TRUE IN its[i].total_price + SumTotalPrice(its, S \ {i})

ItemsOf(its, bill) == {i \in DOMAIN its : its[i].bill = bill}

\* BillForm.__init__: the patients the form accepts
BillForm_patient_queryset ==
    {u \in DOMAIN users : users[u].role = "PATIENT" /\ users[u].is_approved}

BillCreateView(actor, method, patient) ==
    LET gate == MixinDispatch(actor, AdminRequired_test_func(actor)) IN
    IF gate # "permit"
    THEN /\ resp' = DeniedResponse("bill_create", gate)
         /\ UNCHANGED <<database, session, inflight>>
    ELSE IF method = "POST" /\ patient \in BillForm_patient_queryset
    THEN /\ bill_seq <= MaxBills
         /\ bills' = bills @@ (bill_seq :> [patient |-> patient, total_amount |-> 0,
                                            paid_amount |-> 0, status |-> "PENDING"])
         /\ bill_seq' = bill_seq + 1
         /\ resp' = Response("bill_create", "redirect_bill_list", "")
         /\ UNCHANGED <<accounts, session, appointments, medical, schedule, stock, inflight, items, item_seq>>
    ELSE /\ resp' = Response("bill_create", "render", "")
         /\ UNCHANGED <<database, session, inflight>>

\* the product cut to one decimal place
BillItem_row_truncated(bill, quantity, unit_price) ==
    [bill |-> bill, quantity |-> quantity, unit_price |-> unit_price,
     total_price |-> ((quantity * unit_price) \div 10) * 10]

\* BillItem.save lines 306-307: the row as written.  Amounts are counted in
\* hundredths (cents): unit_price is a Decimal of two places, quantity an
\* integer, and their Decimal product has two places again.
BillItem_row(bill, quantity, unit_price) ==
    [bill |-> bill, quantity |-> quantity, unit_price |-> unit_price,
     total_price |-> quantity * unit_price]

Bill_kept(bs, its, bill) == bs

\* BillItem.save lines 309-311: the bill's total over the rows now stored
Bill_recomputed(bs, its, bill) ==
    [bs EXCEPT ![bill].total_amount = SumTotalPrice(its, ItemsOf(its, bill))]

\* BillItemForm: quantity >= 1, unit_price >= 0
BillItemForm_is_valid(quantity, unit_price) ==
    quantity >= 1 /\ unit_price >= 0

add_bill_item(actor, bill_id, method, quantity, unit_price) ==
    LET gate == FunctionViewGate(actor, is_admin(actor)) IN
    IF gate # "permit"
    THEN /\ resp' = DeniedResponse("add_bill_item", gate)
         /\ UNCHANGED <<database, session, inflight>>
    ELSE IF bill_id \notin DOMAIN bills
    THEN /\ resp' = Response("add_bill_item", "404", "")
         /\ UNCHANGED <<database, session, inflight>>
    ELSE IF method = "POST" /\ BillItemForm_is_valid(quantity, unit_price)
    THEN /\ item_seq <= MaxItems
         /\ items' = items @@ (item_seq :> BillItem_row(bill_id, quantity, unit_price))
         /\ item_seq' = item_seq + 1
         /\ bills' = Bill_recomputed(bills, items', bill_id)
         /\ resp' = Response("add_bill_item", "redirect_bill_detail", "Item added to bill.")
         /\ UNCHANGED <<accounts, session, appointments, medical, schedule, stock, inflight, bill_seq>>
    ELSE /\ resp' = Response("add_bill_item", "render", "")
         /\ UNCHANGED <<database, session, inflight>>

\* add_bill_item as the server runs it beside other requests.  No
\* transaction encloses the view, so each save commits on its own: the view
\* loads the bill (line 294) and BillItem.save writes the item row (models.py
\* 306-307); the request then holds the Bill instance it loaded.
add_bill_item_item_save(actor, request, bill_id, quantity, unit_price) ==
    /\ FunctionViewGate(actor, is_admin(actor)) = "permit"
    /\ bill_id \in DOMAIN bills
    /\ BillItemForm_is_valid(quantity, unit_price)
    /\ request \notin DOMAIN inflight
    /\ item_seq <= MaxItems
    /\ items' = items @@ (item_seq :> BillItem_row(bill_id, quantity, unit_price))
    /\ item_seq' = item_seq + 1
    /\ inflight' = inflight @@ (request :> [bill |-> bill_id, row |-> bills[bill_id],
                                            summed |-> FALSE])
    /\ UNCHANGED <<accounts, session, appointments, medical, schedule, stock, bills, bill_seq, resp>>

\* BillItem.save lines 309-310: the query bill.items.all() reads the items
\* now stored and their sum is assigned to the instance in memory.
add_bill_item_sum(request) ==
    /\ request \in DOMAIN inflight
    /\ ~inflight[request].summed
    /\ inflight' = [inflight EXCEPT ![request] =
                       [@ EXCEPT !.row.total_amount =
                                    SumTotalPrice(items, ItemsOf(items, inflight[request].bill)),
                                 !.summed = TRUE]]
    /\ UNCHANGED <<database, session, resp>>

\* BillItem.save line 311: bill.save() writes every column of the instance
\* in memory.
add_bill_item_bill_save(request) ==
    /\ request \in DOMAIN inflight
    /\ inflight[request].summed
    /\ inflight[request].bill \in DOMAIN bills
    /\ bills' = [bills EXCEPT ![inflight[request].bill] = inflight[request].row]
    /\ inflight' = Without(inflight, request)
    /\ resp' = Response("add_bill_item", "redirect_bill_detail", "Item added to bill.")
    /\ UNCHANGED <<accounts, session, appointments, medical, schedule, stock, items, item_seq, bill_seq>>

(* ------------------------ Django admin site --------------------------- *)
\* The change forms of the models registered in core/admin.py.  The admin
\* site has its own login, open to every active staff account whatever its
\* is_approved (setup_admin.py creates one), so the staff member acts from a
\* browser of his own, beside the portal's.
IsStaff(staff) == IsUser(staff) /\ users[staff].is_staff

\* CustomUserAdmin: the "Hospital Management" fieldset (role, is_approved)
CustomUserAdmin_change(staff, user_id, role, approved) ==
    /\ IsStaff(staff)
    /\ IsUser(user_id)
    /\ users' = [users EXCEPT ![user_id].role = role, ![user_id].is_approved = approved]
    /\ resp' = Response("admin_site_user", "redirect_changelist", "was changed successfully.")
    /\ UNCHANGED <<user_seq, session, doctor_profile, patient_profile, appointments, billing, medical, schedule, stock, inflight>>

\* AppointmentAdmin: status, appointment_date, appointment_time of a row
AppointmentAdmin_change(staff, appointment_id, status, date, time) ==
    /\ IsStaff(staff)
    /\ appointment_id \in DOMAIN appts
    /\ appts' = [appts EXCEPT ![appointment_id] =
                    [@ EXCEPT !.status = status,
                              !.appointment_date = date,
                              !.appointment_time = time]]
    /\ resp' = Response("admin_site_appointment", "redirect_changelist", "was changed successfully.")
    /\ UNCHANGED <<accounts, session, appt_seq, billing, medical, schedule, stock, inflight>>

\* InventoryItemAdmin: the change list shows the is_low_stock column, the
\* model method called on every row.
InventoryItemAdmin_changelist(staff) ==
    /\ IsStaff(staff)
    /\ resp' = Response("admin_site_inventory", "200", "")
                @@ [is_low_stock |-> [i \in DOMAIN inventory |-> is_low_stock(inventory[i])]]
    /\ UNCHANGED <<database, session, inflight>>

\* BillAdmin with BillItemInline: the bill's own fields are saved first
\* (save_model), then the inline formset: a new or changed row goes through
\* BillItem.save, a row ticked for deletion through Model.delete.
InlineOps == {"none", "add", "change", "delete"}

BillAdmin_change(staff, bill_id, total, paid, status, op, item_id, quantity, unit_price) ==
    LET saved == [bills EXCEPT ![bill_id] =
                     [@ EXCEPT !.total_amount = total, !.paid_amount = paid, !.status = status]]
    IN
    /\ IsStaff(staff)
    /\ bill_id \in DOMAIN bills
    /\ CASE op = "none" ->
              /\ bills' = saved
              /\ UNCHANGED <<items, item_seq>>
         [] op = "add" ->
              /\ item_seq <= MaxItems
              /\ BillItemForm_is_valid(quantity, unit_price)
              /\ items' = items @@ (item_seq :> BillItem_row(bill_id, quantity, unit_price))
              /\ item_seq' = item_seq + 1
              /\ bills' = Bill_recomputed(saved, items', bill_id)
         [] op = "change" ->
              /\ item_id \in ItemsOf(items, bill_id)
              /\ BillItemForm_is_valid(quantity, unit_price)
              /\ items' = [items EXCEPT ![item_id] = BillItem_row(bill_id, quantity, unit_price)]
              /\ bills' = Bill_recomputed(saved, items', bill_id)
              /\ UNCHANGED item_seq
         [] op = "delete" ->
              /\ item_id \in ItemsOf(items, bill_id)
              /\ items' = Without(items, item_id)
              /\ bills' = saved
              /\ UNCHANGED item_seq
    /\ resp' = Response("admin_site_bill", "redirect_changelist", op)
    /\ UNCHANGED <<accounts, session, appointments, medical, schedule, stock, inflight, bill_seq>>

(* -------------------------------- Next -------------------------------- *)
\* What a request posts matters only once its view lets the actor in: a
\* denied request is enumerated once.
PostedIf(permitted, forms, one) == IF permitted THEN forms ELSE {one}

\* a posted user id: any account, or an id no account has
PostedUserIds == (DOMAIN users) \cup UserIds

\* A GET carries no form.  A POST carries the form's fields and, beside
\* them, a status and a patient the form does not declare: the posted
\* patient is the actor, the posted doctor or the first account.  A form with
\* a missing date or time is posted once per doctor, and each appointment
\* type is posted with a reason of its own.
AppointmentPosts(actor) ==
    {f \in [method : {"POST"}, doctor : PostedUserIds, date : PostedDates,
            time : PostedTimes, type : APPOINTMENT_TYPE_CHOICES, reason : Reasons,
            status : {"CONFIRMED", "COMPLETED"}, patient : PostedUserIds] :
        /\ f.date = "" => (f.time = "t1" /\ f.type = "OPD" /\ f.status = "COMPLETED")
        /\ f.time = "" => (f.date = "d1" /\ f.type = "OPD" /\ f.status = "COMPLETED")
        /\ f.reason = (IF f.type = "OPD" THEN "r1" ELSE "r2")
        /\ f.status = "CONFIRMED" => f.patient = f.doctor
        /\ f.status = "COMPLETED" => f.patient \in {actor, 1}}
    \cup [method : {"GET"}, doctor : {Anon}, date : {""}, time : {""}, type : {"OPD"},
          reason : {"r1"},
          status : {"PENDING"}, patient : {Anon}]

\* new_date and new_time are read by the reschedule branch alone
UpdatePosts ==
    [method : {"POST"}, id : ApptIds, action : {"reschedule"},
     new_date : PostedDates, new_time : PostedTimes]
    \cup [method : Methods, id : ApptIds, action : UpdateActions \ {"reschedule"},
          new_date : {""}, new_time : {""}]

BillItemPosts ==
    [method : Methods, bill : BillIds, quantity : PostedQuantities, unit_price : PostedPrices]

StepRegister ==
    \E method \in Methods, form_valid \in BOOLEAN, role \in ROLE_CHOICES, posted \in BOOLEAN :
        register_view(session, method, form_valid, role, posted)

StepLogin ==
    \E f \in PostedIf(session = Anon,
                      [method : {"POST"}, username : PostedUserIds, password : Passwords]
                      \cup [method : {"GET"}, username : {Anon}, password : {"wrong"}],
                      [method |-> "GET", username |-> Anon, password |-> "wrong"]) :
        login_view(session, f.method, f.username, f.password)

StepApproveUser ==
    \E user_id \in PostedUserIds, method \in Methods, action \in {"approve", "reject", "other"} :
        approve_user(session, user_id, method, action)

StepAppointmentCreate ==
    \E f \in PostedIf(PatientRequired_test_func(session), AppointmentPosts(session),
                      CHOOSE f \in AppointmentPosts(session) : TRUE) :
        PatientAppointmentCreateView(session, f.method, f.doctor, f.date, f.time, f.type, f.reason,
                                     f.status, f.patient)

StepUpdateAppointment ==
    \E f \in PostedIf(DoctorRequired_test_func(session), UpdatePosts,
                      CHOOSE f \in UpdatePosts : TRUE) :
        update_appointment_status(session, f.id, f.method, f.action, f.new_date, f.new_time)

StepAddPrescription ==
    \E record_id \in 1..MaxRecords, method \in Methods, form_valid \in BOOLEAN :
        add_prescription(session, record_id, method, form_valid)

StepDoctorProfileEdit ==
    \E method \in Methods, license \in Licenses \cup {""} :
        doctor_profile_edit(session, method, license)

StepPatientProfileEdit ==
    \E method \in Methods, form_valid \in BOOLEAN :
        patient_profile_edit(session, method, form_valid)

StepBillCreate ==
    \E method \in Methods, patient \in PostedUserIds : BillCreateView(session, method, patient)

StepAddBillItem ==
    \E f \in PostedIf(AdminRequired_test_func(session), BillItemPosts,
                      CHOOSE f \in BillItemPosts : TRUE) :
        add_bill_item(session, f.bill, f.method, f.quantity, f.unit_price)

\* the approval tick alone, the role left as it is
StepUserAdminApproval ==
    \E staff \in DOMAIN users, user_id \in DOMAIN users, approved \in BOOLEAN :
        CustomUserAdmin_change(staff, user_id, users[user_id].role, approved)

\* the approval tick of the doctor who registered last
StepDoctorApprovalAdmin ==
    \E staff \in DOMAIN users, user_id \in DOMAIN users, approved \in BOOLEAN :
        /\ users[user_id].role = "DOCTOR"
        /\ \A d \in DOMAIN users : users[d].role = "DOCTOR" => d <= user_id
        /\ CustomUserAdmin_change(staff, user_id, "DOCTOR", approved)

\* one submission of the change form edits the status or the slot
StepAppointmentAdmin ==
    \E staff \in DOMAIN users, appointment_id \in DOMAIN appts, status \in STATUS_CHOICES,
       date \in Dates, time \in Times :
        /\ \/ status = appts[appointment_id].status
           \/ /\ date = appts[appointment_id].appointment_date
              /\ time = appts[appointment_id].appointment_time
        /\ AppointmentAdmin_change(staff, appointment_id, status, date, time)

StepBillAdmin ==
    \E staff \in DOMAIN users, bill_id \in DOMAIN bills, paid \in Prices,
       status \in BILL_STATUS_CHOICES :
        \E total \in {bills[bill_id].total_amount} \cup Prices :
            \/ BillAdmin_change(staff, bill_id, total, paid, status, "none", 1, 1, 0)
            \/ \E quantity \in Quantities, unit_price \in Prices :
                   BillAdmin_change(staff, bill_id, total, paid, status, "add", 1,
                                    quantity, unit_price)
            \/ \E item_id \in DOMAIN items, quantity \in Quantities, unit_price \in Prices :
                   BillAdmin_change(staff, bill_id, total, paid, status, "change", item_id,
                                    quantity, unit_price)
            \/ \E item_id \in DOMAIN items :
                   BillAdmin_change(staff, bill_id, total, paid, status, "delete", item_id, 1, 0)

\* Accounts and the role gate, from the freshly set-up site: every view that
\* checks a role, none of the rows the create views would add.
Next ==
    \/ StepRegister
    \/ StepLogin
    \/ logout_view(session)
    \/ dashboard_view(session)
    \/ StepApproveUser
    \/ AdminDashboardView(session)
    \/ PatientAppointmentListView(session)
    \/ DoctorAppointmentListView(session)
    \/ StepUpdateAppointment
    \/ StepAddBillItem
    \/ StepAddPrescription
    \/ StepDoctorProfileEdit
    \/ StepPatientProfileEdit
    \/ StepUserAdminApproval

Spec == Init /\ [][Next]_vars

\* The appointment workflow among accounts that registered and were approved
\* earlier: the admin (1), two doctors (2, 3) and a patient (4).
InitAppt ==
    /\ users = (1 :> [role |-> "ADMIN", is_approved |-> TRUE, is_staff |-> TRUE])
            @@ (2 :> [role |-> "DOCTOR", is_approved |-> TRUE, is_staff |-> FALSE])
            @@ (3 :> [role |-> "DOCTOR", is_approved |-> TRUE, is_staff |-> FALSE])
            @@ (4 :> [role |-> "PATIENT", is_approved |-> TRUE, is_staff |-> FALSE])
    /\ user_seq = 5
    /\ session = Anon
    /\ doctor_profile = (2 :> [license_number |-> ""])
    /\ patient_profile = {}
    /\ appts = << >>
    /\ appt_seq = 1
    /\ bills = << >>
    /\ bill_seq = 1
    /\ items = << >>
    /\ item_seq = 1
    /\ records = << >>
    /\ record_seq = 1
    /\ availability = << >>
    /\ avail_seq = 1
    /\ inventory = << >>
    /\ inventory_seq = 1
    /\ inflight = << >>
    /\ resp = Response("none", "none", "")

NextAppt ==
    \/ StepLogin
    \/ logout_view(session)
    \/ StepAppointmentCreate
    \/ StepUpdateAppointment
    \/ StepDoctorApprovalAdmin
    \/ StepAppointmentAdmin

SpecAppt == InitAppt /\ [][NextAppt]_vars

\* Billing by the admin (1) for an approved patient (2).
InitBilling ==
    /\ users = (1 :> [role |-> "ADMIN", is_approved |-> TRUE, is_staff |-> TRUE])
            @@ (2 :> [role |-> "PATIENT", is_approved |-> TRUE, is_staff |-> FALSE])
    /\ user_seq = 3
    /\ session = 1
    /\ doctor_profile = << >>
    /\ patient_profile = {}
    /\ appts = << >>
    /\ appt_seq = 1
    /\ bills = << >>
    /\ bill_seq = 1
    /\ items = << >>
    /\ item_seq = 1
    /\ records = << >>
    /\ record_seq = 1
    /\ availability = << >>
    /\ avail_seq = 1
    /\ inventory = << >>
    /\ inventory_seq = 1
    /\ inflight = << >>
    /\ resp = Response("login", "redirect_dashboard", "logged in")

NextBilling ==
    \/ StepBillCreate
    \/ StepAddBillItem
    \/ StepBillAdmin

SpecBilling == InitBilling /\ [][NextBilling]_vars

\* A hospital in use, every table holding rows: the admin (1), a doctor (2)
\* with a profile and an availability entry, a patient (3) with a profile
\* entered in the admin site, an appointment, a medical record with a
\* prescription and a bill with an item, and a second patient (4) with a
\* bill of their own.  The admin approves and rejects accounts.
InitReject ==
    /\ users = (1 :> [role |-> "ADMIN", is_approved |-> TRUE, is_staff |-> TRUE])
            @@ (2 :> [role |-> "DOCTOR", is_approved |-> TRUE, is_staff |-> FALSE])
            @@ (3 :> [role |-> "PATIENT", is_approved |-> TRUE, is_staff |-> FALSE])
            @@ (4 :> [role |-> "PATIENT", is_approved |-> FALSE, is_staff |-> FALSE])
    /\ user_seq = 5
    /\ session = Anon
    /\ doctor_profile = (2 :> [license_number |-> "L1"])
    /\ patient_profile = {3}
    /\ appts = (1 :> [patient |-> 3, doctor |-> 2, appointment_date |-> "d1",
                      appointment_time |-> "t1", status |-> "CONFIRMED",
                      appointment_type |-> "OPD", reason |-> "r1"])
    /\ appt_seq = 2
    /\ bills = (1 :> [patient |-> 3, total_amount |-> 2, paid_amount |-> 0, status |-> "PENDING"])
            @@ (2 :> [patient |-> 4, total_amount |-> 1, paid_amount |-> 0, status |-> "PENDING"])
    /\ bill_seq = 3
    /\ items = (1 :> BillItem_row(1, 2, 1)) @@ (2 :> BillItem_row(2, 1, 1))
    /\ item_seq = 3
    /\ records = (1 :> [patient |-> 3, doctor |-> 2, prescriptions |-> 1])
    /\ record_seq = 2
    /\ availability = (1 :> [doctor |-> 2, day_of_week |-> "MON", start_time |-> "t1"])
    /\ avail_seq = 2
    /\ inventory = << >>
    /\ inventory_seq = 1
    /\ inflight = << >>
    /\ resp = Response("none", "none", "")

NextReject ==
    \/ StepLogin
    \/ logout_view(session)
    \/ dashboard_view(session)
    \/ StepApproveUser

SpecReject == InitReject /\ [][NextReject]_vars

\* Prices in cents: the admin (1) adds items of 0.00, 0.01, 9.99 and 19.99 to
\* the bill of an approved patient (2).
CentPrices == {0, 1, 999, 1999}
CentQuantities == 1..(MaxQuantity + 1)

InitCents ==
    /\ users = (1 :> [role |-> "ADMIN", is_approved |-> TRUE, is_staff |-> TRUE])
            @@ (2 :> [role |-> "PATIENT", is_approved |-> TRUE, is_staff |-> FALSE])
    /\ user_seq = 3
    /\ session = 1
    /\ doctor_profile = << >>
    /\ patient_profile = {}
    /\ appts = << >>
    /\ appt_seq = 1
    /\ bills = (1 :> [patient |-> 2, total_amount |-> 0, paid_amount |-> 0, status |-> "PENDING"])
    /\ bill_seq = 2
    /\ items = << >>
    /\ item_seq = 1
    /\ records = << >>
    /\ record_seq = 1
    /\ availability = << >>
    /\ avail_seq = 1
    /\ inventory = << >>
    /\ inventory_seq = 1
    /\ inflight = << >>
    /\ resp = Response("bill_create", "redirect_bill_list", "")

StepAddBillItemCents ==
    \E quantity \in CentQuantities \cup {0}, unit_price \in CentPrices \cup {-1} :
        add_bill_item(session, 1, "POST", quantity, unit_price)

NextCents == StepAddBillItemCents

SpecCents == InitCents /\ [][NextCents]_vars

\* Requests served side by side: the admin (1) adds items to the bill of an
\* approved patient (2) while a staff account records payments on it in the
\* admin site.
Requests == 1..MaxRequests

StepItemSave ==
    \E request \in Requests, bill_id \in DOMAIN bills, quantity \in Quantities,
       unit_price \in Prices :
        add_bill_item_item_save(session, request, bill_id, quantity, unit_price)

StepSum == \E request \in Requests : add_bill_item_sum(request)

StepBillSave == \E request \in Requests : add_bill_item_bill_save(request)

\* the bill's change form saved with a new paid_amount and status, the
\* total_amount left as displayed
StepBillPayment ==
    \E staff \in DOMAIN users, bill_id \in DOMAIN bills, paid \in Prices,
       status \in BILL_STATUS_CHOICES :
        BillAdmin_change(staff, bill_id, bills[bill_id].total_amount, paid, status,
                         "none", 1, 1, 0)

NextConcurrent ==
    \/ StepItemSave
    \/ StepSum
    \/ StepBillSave
    \/ StepBillPayment

SpecConcurrent == InitCents /\ [][NextConcurrent]_vars

\* The doctors of InitAppt (2 with a profile, 3 without) keep their weekly
\* availability.
StepAvailabilityCreate ==
    \E method \in Methods, day_of_week \in DAY_CHOICES \cup {""}, start_time \in PostedTimes :
        DoctorAvailabilityCreateView(session, method, day_of_week, start_time)

NextAvailability ==
    \/ StepLogin
    \/ logout_view(session)
    \/ DoctorAvailabilityListView(session)
    \/ StepAvailabilityCreate

SpecAvailability == InitAppt /\ [][NextAvailability]_vars

\* The admin (1) keeps the inventory; the patient (2) can log in and is
\* refused.  A GET carries no form.
InventoryPosts ==
    [method : {"POST"}, current_stock : StockLevels \cup {-1}, reorder_level : StockLevels]
    \cup [method : {"POST"}, current_stock : StockLevels, reorder_level : {-1}]
    \cup [method : {"GET"}, current_stock : {0}, reorder_level : {0}]

StepInventoryList ==
    \E low_stock \in {"", "true", "false"} : InventoryListView(session, low_stock)

StepInventoryCreate ==
    \E f \in PostedIf(AdminRequired_test_func(session), InventoryPosts,
                      [method |-> "GET", current_stock |-> 0, reorder_level |-> 0]) :
        InventoryCreateView(session, f.method, f.current_stock, f.reorder_level)

StepInventoryUpdate ==
    \E pk \in 1..MaxInventory :
        \E f \in PostedIf(AdminRequired_test_func(session), InventoryPosts,
                          [method |-> "GET", current_stock |-> 0, reorder_level |-> 0]) :
            InventoryUpdateView(session, pk, f.method, f.current_stock, f.reorder_level)

StepInventoryAdmin == \E staff \in DOMAIN users : InventoryItemAdmin_changelist(staff)

NextInventory ==
    \/ StepInventoryAdmin
    \/ StepLogin
    \/ logout_view(session)
    \/ AdminDashboardView(session)
    \/ StepInventoryList
    \/ StepInventoryCreate
    \/ StepInventoryUpdate

SpecInventory == InitCents /\ [][NextInventory]_vars

\* Two doctors and two patients read their records: doctor 2 has seen
\* patient 4, doctor 3 has seen patients 4 and 5, and each patient has a bill.
ScopeAppts ==
    (1 :> [patient |-> 4, doctor |-> 2, appointment_date |-> "d1",
           appointment_time |-> "t1", status |-> "CONFIRMED",
           appointment_type |-> "OPD", reason |-> "r1"])
    @@ (2 :> [patient |-> 4, doctor |-> 3, appointment_date |-> "d1",
              appointment_time |-> "t2", status |-> "COMPLETED",
              appointment_type |-> "OPD", reason |-> "r1"])
    @@ (3 :> [patient |-> 5, doctor |-> 3, appointment_date |-> "d2",
              appointment_time |-> "t1", status |-> "CONFIRMED",
              appointment_type |-> "OPD", reason |-> "r1"])

InitScope ==
    /\ users = (1 :> [role |-> "ADMIN", is_approved |-> TRUE, is_staff |-> TRUE])
            @@ (2 :> [role |-> "DOCTOR", is_approved |-> TRUE, is_staff |-> FALSE])
            @@ (3 :> [role |-> "DOCTOR", is_approved |-> TRUE, is_staff |-> FALSE])
            @@ (4 :> [role |-> "PATIENT", is_approved |-> TRUE, is_staff |-> FALSE])
            @@ (5 :> [role |-> "PATIENT", is_approved |-> TRUE, is_staff |-> FALSE])
    /\ user_seq = 6
    /\ session = Anon
    /\ doctor_profile = (2 :> [license_number |-> "L1"]) @@ (3 :> [license_number |-> "L2"])
    /\ patient_profile = {}
    /\ appts = ScopeAppts
    /\ appt_seq = 4
    /\ bills = (1 :> [patient |-> 4, total_amount |-> 0, paid_amount |-> 0, status |-> "PENDING"])
            @@ (2 :> [patient |-> 5, total_amount |-> 0, paid_amount |-> 0, status |-> "PENDING"])
    /\ bill_seq = 3
    /\ items = << >>
    /\ item_seq = 1
    /\ records = << >>
    /\ record_seq = 1
    /\ availability = << >>
    /\ avail_seq = 1
    /\ inventory = << >>
    /\ inventory_seq = 1
    /\ inflight = << >>
    /\ resp = Response("none", "none", "")

\* a posted or requested id: a row's, or one past the rows
StepMedicalRecordCreate ==
    \E method \in Methods, patient \in DOMAIN users :
        MedicalRecordCreateView(session, method, patient)

StepMedicalRecordList ==
    \E patient_id \in {NoParam, NotANumber} \cup {u \in DOMAIN users : users[u].role = "PATIENT"} :
        MedicalRecordListView(session, patient_id)

StepMedicalRecordDetail == \E pk \in 1..(MaxRecords + 1) : MedicalRecordDetailView(session, pk)

StepPatientMedicalRecordDetail ==
    \E pk \in 1..(MaxRecords + 1) : PatientMedicalRecordDetailView(session, pk)

StepPatientBillDetail ==
    \E pk \in (DOMAIN bills) \cup {bill_seq} : PatientBillDetailView(session, pk)

NextScope ==
    \/ StepLogin
    \/ logout_view(session)
    \/ StepMedicalRecordCreate
    \/ StepMedicalRecordList
    \/ StepMedicalRecordDetail
    \/ DoctorAppointmentListView(session)
    \/ PatientAppointmentListView(session)
    \/ PatientMedicalRecordListView(session)
    \/ StepPatientMedicalRecordDetail
    \/ PatientBillListView(session)
    \/ StepPatientBillDetail

SpecScope == InitScope /\ [][NextScope]_vars

\* The doctors of InitScope act on their appointments from several browser
\* windows at once.
StepAppointmentLoad ==
    \E request \in Requests, appointment_id \in DOMAIN appts,
       action \in {"confirm", "cancel", "reschedule"}, new_date \in Dates, new_time \in PostedTimes :
        /\ action # "reschedule" => (new_date = "d1" /\ new_time = "t1")
        /\ update_appointment_status_load(session, request, appointment_id, action,
                                          new_date, new_time)

StepAppointmentSave == \E request \in Requests : update_appointment_status_save(request)

NextApptConcurrent ==
    \/ StepLogin
    \/ logout_view(session)
    \/ StepAppointmentLoad
    \/ StepAppointmentSave

SpecApptConcurrent == InitScope /\ [][NextApptConcurrent]_vars

\* Accounts opening their profile page for the first time, in several
\* browser windows at once: doctor 2 has set a license number, doctor 3 and
\* patient 4 have no profile yet.
InitProfiles ==
    /\ users = (1 :> [role |-> "ADMIN", is_approved |-> TRUE, is_staff |-> TRUE])
            @@ (2 :> [role |-> "DOCTOR", is_approved |-> TRUE, is_staff |-> FALSE])
            @@ (3 :> [role |-> "DOCTOR", is_approved |-> TRUE, is_staff |-> FALSE])
            @@ (4 :> [role |-> "PATIENT", is_approved |-> TRUE, is_staff |-> FALSE])
    /\ user_seq = 5
    /\ session = Anon
    /\ doctor_profile = (2 :> [license_number |-> "L1"])
    /\ patient_profile = {}
    /\ appts = << >>
    /\ appt_seq = 1
    /\ bills = << >>
    /\ bill_seq = 1
    /\ items = << >>
    /\ item_seq = 1
    /\ records = << >>
    /\ record_seq = 1
    /\ availability = << >>
    /\ avail_seq = 1
    /\ inventory = << >>
    /\ inventory_seq = 1
    /\ inflight = << >>
    /\ resp = Response("none", "none", "")

StepDoctorProfileCheck == \E request \in Requests : doctor_profile_edit_check(session, request)

StepDoctorProfileCreate == \E request \in Requests : doctor_profile_edit_create(request)

StepPatientProfileCheck == \E request \in Requests : patient_profile_edit_check(session, request)

StepPatientProfileCreate == \E request \in Requests : patient_profile_edit_create(request)

NextProfiles ==
    \/ StepLogin
    \/ logout_view(session)
    \/ StepDoctorProfileEdit
    \/ StepDoctorProfileCheck
    \/ StepDoctorProfileCreate
    \/ StepPatientProfileCheck
    \/ StepPatientProfileCreate

SpecProfiles == InitProfiles /\ [][NextProfiles]_vars

\* The appointment workflow at the portal: what patients and doctors can do
\* through urls.py, without the admin site.
NextWorkflow ==
    \/ StepLogin
    \/ logout_view(session)
    \/ StepAppointmentCreate
    \/ StepUpdateAppointment
    \/ StepMedicalRecordCreate
    \/ StepAddPrescription

SpecWorkflow == InitAppt /\ [][NextWorkflow]_vars

(* ------------------------------ properties ---------------------------- *)
\* the BillItem rows of a bill, by id
BillRows(its, bill) == [i \in ItemsOf(its, bill) |-> its[i]]

\* C1: whenever a step adds, updates or deletes BillItem rows of a bill that
\* stays in the store, the bill's total_amount after the step equals the sum
\* of total_price over the rows the bill then has.
BillTotalFollowsItems ==
    [][\A b \in (DOMAIN bills) \cap (DOMAIN bills') :
          BillRows(items', b) # BillRows(items, b)
          => bills'[b].total_amount = SumTotalPrice(items', ItemsOf(items', b))]_vars

TerminalStatuses == {"CANCELLED", "COMPLETED"}

\* C2: an update_appointment_status request leaves the status of every
\* CANCELLED or COMPLETED appointment as it was.
TerminalStatusIsFinal ==
    [][resp'.view = "update_appointment_status"
       => \A a \in DOMAIN appts :
              appts[a].status \in TerminalStatuses
              => a \in DOMAIN appts' /\ appts'[a].status = appts[a].status]_vars

StatusEdges ==
    {<<"PENDING", "CONFIRMED">>, <<"PENDING", "CANCELLED">>,
     <<"CONFIRMED", "CANCELLED">>, <<"CONFIRMED", "COMPLETED">>}

\* C3: a step of update_appointment_status changes an appointment's status
\* only along PENDING->CONFIRMED, PENDING->CANCELLED, CONFIRMED->CANCELLED,
\* CONFIRMED->COMPLETED, or to PENDING by a reschedule.
StatusMovesAlongEdges ==
    [][resp'.view = "update_appointment_status"
       => \A a \in (DOMAIN appts) \cap (DOMAIN appts') :
              appts'[a].status # appts[a].status
              => \/ <<appts[a].status, appts'[a].status>> \in StatusEdges
                 \/ /\ resp'.message = "Appointment rescheduled."
                    /\ appts'[a].status = "PENDING"]_vars

\* C4: the appointment a PatientAppointmentCreateView step stores has status
\* PENDING, the acting user as its patient, and a doctor whose account has
\* role DOCTOR and is approved, whatever status and patient were posted.
CreatedAppointmentIsPending ==
    [][(resp'.view = "patient_appointment_create" /\ appt_seq' # appt_seq)
       => /\ appt_seq \in DOMAIN appts'
          /\ appts'[appt_seq].status = "PENDING"
          /\ appts'[appt_seq].patient = session
          /\ is_patient(session)
          /\ IsUser(appts'[appt_seq].doctor)
          /\ users[appts'[appt_seq].doctor].role = "DOCTOR"
          /\ users[appts'[appt_seq].doctor].is_approved]_vars

\* an approved patient has just created an appointment
AppointmentCreated ==
    /\ resp.view = "patient_appointment_create"
    /\ resp.result = "redirect_patient_appointments"
    /\ \E a \in DOMAIN appts : appts[a].patient = session /\ appts[a].status = "PENDING"

\* C5: a reschedule posted by the assigned doctor with (new_date, new_time)
\* sets the appointment's status to PENDING and its date and time to the
\* posted ones, from any prior status, and changes no other field and no
\* other appointment.
RescheduleResetsToPending ==
    [][resp'.message = "Appointment rescheduled."
       => \A id \in DOMAIN appts, new_date \in Dates, new_time \in Times :
              update_appointment_status(session, id, "POST", "reschedule", new_date, new_time)
              => /\ appts[id].doctor = session
                 /\ appts' = [appts EXCEPT ![id] =
                                 [patient |-> appts[id].patient,
                                  doctor |-> appts[id].doctor,
                                  appointment_type |-> appts[id].appointment_type,
                                  reason |-> appts[id].reason,
                                  status |-> "PENDING",
                                  appointment_date |-> new_date,
                                  appointment_time |-> new_time]]]_vars

\* a doctor has just rescheduled one of their appointments
AppointmentRescheduled ==
    /\ resp.message = "Appointment rescheduled."
    /\ \E a \in DOMAIN appts : appts[a].doctor = session /\ appts[a].status = "PENDING"

\* what update_appointment_status writes: status, date and time
Slot(appt) == <<appt.status, appt.appointment_date, appt.appointment_time>>

\* the acting user of a step is the approved doctor assigned to appointment a
AssignedDoctorActs(a) ==
    /\ resp'.view = "update_appointment_status"
    /\ is_doctor(session)
    /\ appts[a].doctor = session

\* C6 (as stated): the status, date or time of a stored appointment changes
\* only in an update_appointment_status step of the approved doctor assigned
\* to it.
OnlyAssignedDoctorChangesSlot ==
    [][\A a \in (DOMAIN appts) \cap (DOMAIN appts') :
          Slot(appts'[a]) # Slot(appts[a]) => AssignedDoctorActs(a)]_vars

\* C6 (amended): the status, date or time of a stored appointment changes
\* only in an update_appointment_status step of the approved doctor assigned
\* to it, or when a staff account saves the admin site's Appointment form; no
\* update_appointment_status request of anyone else changes them.
OnlyAssignedDoctorOrStaffChangesSlot ==
    [][\A a \in (DOMAIN appts) \cap (DOMAIN appts') :
          Slot(appts'[a]) # Slot(appts[a])
          => AssignedDoctorActs(a) \/ resp'.view = "admin_site_appointment"]_vars

\* an approved doctor asked to update an appointment assigned to another doctor
OtherDoctorRefused ==
    /\ resp.view = "update_appointment_status"
    /\ resp.result = "404"
    /\ is_doctor(session)
    /\ \E a \in DOMAIN appts : appts[a].doctor # session

\* the role each gated view requires
GateRole ==
    [approve_user |-> "ADMIN", admin_dashboard |-> "ADMIN", add_bill_item |-> "ADMIN",
     bill_create |-> "ADMIN",
     doctor_appointments |-> "DOCTOR", update_appointment_status |-> "DOCTOR",
     add_prescription |-> "DOCTOR", doctor_profile_edit |-> "DOCTOR",
     patient_appointments |-> "PATIENT", patient_appointment_create |-> "PATIENT",
     patient_profile_edit |-> "PATIENT"]

\* the response is the view's own, not the gate's refusal
Permitted(r) ==
    r.result \notin {"redirect_login", "403"} /\ r.message # "Permission denied."

\* the acting user is logged in, has the role the view requires, and is approved
ActorQualifies(view) ==
    /\ IsUser(session)
    /\ users[session].role = GateRole[view]
    /\ users[session].is_approved

\* C7: a request to a role-gated view is let through exactly when its actor
\* is authenticated, has the role the view requires and is approved; a request
\* of an unapproved account changes no stored row.
RoleGatePermitsIff ==
    [][resp'.view \in DOMAIN GateRole
       => /\ Permitted(resp') <=> ActorQualifies(resp'.view)
          /\ (IsUser(session) /\ ~users[session].is_approved) => UNCHANGED database]_vars

\* a logged-in account whose approval was withdrawn was refused approve_user
\* although its stored role is ADMIN
UnapprovedAdminRefused ==
    /\ resp.view = "approve_user"
    /\ ~Permitted(resp)
    /\ IsUser(session)
    /\ users[session].role = "ADMIN"
    /\ ~users[session].is_approved

\* C8: a role-gated view answers an authenticated actor that is unapproved or
\* has the wrong role with a permission-denied response (403).
DenialIsPermissionDenied ==
    [][(resp'.view \in DOMAIN GateRole /\ IsUser(session) /\ ~ActorQualifies(resp'.view))
       => resp'.result = "403"]_vars

\* C9: the account a register_view step stores has is_approved = FALSE,
\* whatever role and form content were posted.
RegisteredUnapproved ==
    [][(resp'.view = "register" /\ user_seq' # user_seq)
       => /\ user_seq \in DOMAIN users'
          /\ ~users'[user_seq].is_approved]_vars

\* a registration that posted the ADMIN role has just stored its account
AdminRoleRegistered ==
    /\ resp.view = "register"
    /\ resp.result = "redirect_login"
    /\ (user_seq - 1) \in DOMAIN users
    /\ users[user_seq - 1].role = "ADMIN"
    /\ ~users[user_seq - 1].is_approved

DashboardOf ==
    [ADMIN |-> "redirect_admin_dashboard", DOCTOR |-> "redirect_doctor_dashboard",
     PATIENT |-> "redirect_patient_dashboard"]

\* a login with the account's own password: a session for the account is
\* established exactly when the account is approved
LoginNeedsApproval ==
    (resp'.view = "login" /\ session = Anon)
    => \A u \in DOMAIN users :
           login_view(Anon, "POST", u, "right") => (session' = u <=> users[u].is_approved)

\* dashboard_view sends an approved account to the dashboard of its role
DashboardByRole ==
    (resp'.view = "dashboard" /\ IsUser(session) /\ users[session].is_approved)
    => resp'.result = DashboardOf[users[session].role]

\* the approve action of an approved admin on account u
ApproveActionOn(u) ==
    resp'.view = "approve_user" /\ is_admin(session) /\ resp'.message = "has been approved."

\* C10 (as stated): a login with correct credentials establishes a session
\* exactly when the account is approved, an account becomes approved only by
\* the approve action of an approved admin, and dashboard_view redirects an
\* approved account to the dashboard of its role.
LoginOnlyAfterApproveAction ==
    [][/\ LoginNeedsApproval
       /\ DashboardByRole
       /\ \A u \in (DOMAIN users) \cap (DOMAIN users') :
              (~users[u].is_approved /\ users'[u].is_approved) => ApproveActionOn(u)]_vars

\* C10 (amended): a login with correct credentials establishes a session
\* exactly when the account is approved, an account becomes approved only by
\* the approve action of an approved admin or when a staff account saves the
\* admin site's user form, and dashboard_view redirects an approved account
\* to the dashboard of its role.
LoginOnlyAfterApproval ==
    [][/\ LoginNeedsApproval
       /\ DashboardByRole
       /\ \A u \in (DOMAIN users) \cap (DOMAIN users') :
              (~users[u].is_approved /\ users'[u].is_approved)
              => ApproveActionOn(u) \/ resp'.view = "admin_site_user"]_vars

\* a registered account, approved since, has logged in and been sent to the
\* patient dashboard
RegisteredPatientAtDashboard ==
    /\ resp.view = "dashboard"
    /\ resp.result = "redirect_patient_dashboard"
    /\ session > 1

\* the views of the Django admin site (admin.py), not of the portal
AdminSiteViews ==
    {"admin_site_user", "admin_site_appointment", "admin_site_bill", "admin_site_inventory"}

ReferencesExist ==
    /\ DOMAIN doctor_profile \subseteq DOMAIN users
    /\ patient_profile \subseteq DOMAIN users
    /\ \A a \in DOMAIN availability : availability[a].doctor \in DOMAIN doctor_profile
    /\ \A a \in DOMAIN appts : {appts[a].patient, appts[a].doctor} \subseteq DOMAIN users
    /\ \A r \in DOMAIN records : {records[r].patient, records[r].doctor} \subseteq DOMAIN users
    /\ \A b \in DOMAIN bills : bills[b].patient \in DOMAIN users
    /\ \A i \in DOMAIN items : items[i].bill \in DOMAIN bills

\* C12: a reject removes the account, and before and after every step each
\* stored profile, availability entry, appointment, medical record, bill and
\* bill item references rows that exist.
RejectCascades ==
    [][/\ ReferencesExist
       /\ ReferencesExist'
       /\ resp'.message = "has been rejected and deleted."
          => \E u \in DOMAIN users : u \notin DOMAIN users']_vars

\* the patient who had a profile, an appointment, a medical record and a
\* bill was rejected: their rows are gone, the other patient's bill is kept
OwnerRejected ==
    /\ resp.message = "has been rejected and deleted."
    /\ patient_profile = {}
    /\ appts = << >>
    /\ records = << >>
    /\ DOMAIN doctor_profile # {}
    /\ Cardinality(DOMAIN bills) = 1
    /\ Cardinality(DOMAIN items) = 1

\* the step went through BillItem.save: add_bill_item stored an item, or the
\* admin site's inline added or changed one
BillItemSaved ==
    \/ resp'.view = "add_bill_item" /\ resp'.message = "Item added to bill."
    \/ resp'.view = "admin_site_bill" /\ resp'.message \in {"add", "change"}

\* C13: after a step through BillItem.save, every item the step created or
\* changed has total_price = quantity * unit_price, and its bill's
\* total_amount is the sum of total_price over the bill's items.
SaveRecomputesTotals ==
    [][BillItemSaved
       => \A i \in DOMAIN items' :
              (i \notin DOMAIN items \/ items'[i] # items[i])
              => /\ items'[i].total_price = items'[i].quantity * items'[i].unit_price
                 /\ items'[i].bill \in DOMAIN bills'
                 /\ bills'[items'[i].bill].total_amount
                        = SumTotalPrice(items', ItemsOf(items', items'[i].bill))]_vars

\* an item of a bill with two items was changed in the admin site's inline
\* and the bill's total is the sum over both
ItemChangedAndSummed ==
    /\ resp.view = "admin_site_bill"
    /\ resp.message = "change"
    /\ \E b \in DOMAIN bills :
           /\ Cardinality(ItemsOf(items, b)) = 2
           /\ bills[b].total_amount = SumTotalPrice(items, ItemsOf(items, b))
           /\ bills[b].total_amount > 2

\* C14: every stored bill item has quantity >= 1, unit_price >= 0 and
\* total_price equal to quantity * unit_price to the cent.
TotalPriceExact ==
    \A i \in DOMAIN items :
        /\ items[i].quantity >= 1
        /\ items[i].unit_price >= 0
        /\ items[i].total_price = items[i].quantity * items[i].unit_price

\* three items at 19.99 are stored with a total price of 59.97
ThreeAtNineteenNinetyNine ==
    \E i \in DOMAIN items :
        /\ items[i].quantity = 3
        /\ items[i].unit_price = 1999
        /\ items[i].total_price = 5997

\* C15: in every state a reader can observe, each bill's total_amount is the
\* sum of total_price over the bill items stored for it: no item is stored
\* beside a total computed before it was written.
NoItemBesideStaleTotal ==
    \A b \in DOMAIN bills :
        bills[b].total_amount = SumTotalPrice(items, ItemsOf(items, b))

\* C16: the step in which BillItem.save writes the recomputed total leaves
\* the status and the paid_amount of every bill as they were stored just
\* before it.
RecomputationKeepsStatusAndPaid ==
    [][resp'.view = "add_bill_item"
       => \A b \in (DOMAIN bills) \cap (DOMAIN bills') :
              /\ bills'[b].status = bills[b].status
              /\ bills'[b].paid_amount = bills[b].paid_amount
              /\ bills'[b].patient = bills[b].patient]_vars

\* C17: every visit (GET or POST) of a doctor to doctor_profile_edit and of
\* a patient to patient_profile_edit that passes the role check leaves that
\* account with its one profile; the profiles of the other accounts are
\* neither added nor removed by the visit.
ProfileEditLeavesOneProfile ==
    [][/\ (resp'.view = "doctor_profile_edit"
            /\ FunctionViewGate(session, is_doctor(session)) = "permit")
           => /\ session \in DOMAIN doctor_profile'
              /\ (DOMAIN doctor_profile') \ {session} = (DOMAIN doctor_profile) \ {session}
       /\ (resp'.view = "patient_profile_edit"
            /\ FunctionViewGate(session, is_patient(session)) = "permit")
           => /\ session \in patient_profile'
              /\ patient_profile' \ {session} = patient_profile \ {session}]_vars

\* C18: a registration that stores a new DOCTOR account leaves it with a
\* DoctorProfile and one that stores a new PATIENT account leaves it with a
\* PatientProfile, whatever accounts registered before.
RegistrationCreatesProfile ==
    [][\A u \in (DOMAIN users') \ (DOMAIN users) :
          /\ users'[u].role = "DOCTOR" => u \in DOMAIN doctor_profile'
          /\ users'[u].role = "PATIENT" => u \in patient_profile']_vars

AvailabilityKeysDistinct ==
    \A a, b \in DOMAIN availability :
        (/\ availability[a].doctor = availability[b].doctor
         /\ availability[a].day_of_week = availability[b].day_of_week
         /\ availability[a].start_time = availability[b].start_time) => a = b

\* C19: no two availability entries share (doctor, day_of_week, start_time),
\* and a doctor's creation request for a (day_of_week, start_time) already
\* stored for that doctor is answered by the form shown again with the
\* uniqueness error, the stored entries unchanged.
DuplicateRefusedOnForm ==
    [][/\ AvailabilityKeysDistinct'
       /\ \A day_of_week \in DAY_CHOICES, start_time \in Times :
            (/\ DoctorRequired_test_func(session)
             /\ DoctorAvailabilityInsertFails(session, day_of_week, start_time)
             /\ DoctorAvailabilityCreateView(session, "POST", day_of_week, start_time))
            => /\ resp'.result = "render"
               /\ availability' = availability]_vars

LowStockItems == {i \in DOMAIN inventory : is_low_stock(inventory[i])}

\* C20: is_low_stock() of an item is true exactly when its current_stock is
\* at most its reorder_level; the inventory list requested with
\* low_stock=true shows exactly the items whose is_low_stock() is true, and
\* the admin dashboard's low-stock count is the number of those items.
LowStockSelections ==
    [][/\ \A i \in DOMAIN inventory :
            is_low_stock(inventory[i])
                <=> inventory[i].current_stock <= inventory[i].reorder_level
       /\ (resp'.view = "inventory_list" /\ resp'.result = "200" /\ resp'.low_stock = "true")
           => resp'.object_list = LowStockItems
       /\ (resp'.view = "admin_dashboard" /\ resp'.result = "200")
           => resp'.low_stock_items = Cardinality(LowStockItems)]_vars

\* the filtered list shows an item at the boundary and leaves out an item
\* above its reorder level
BoundaryItemListed ==
    /\ resp.view = "inventory_list"
    /\ resp.result = "200"
    /\ resp.low_stock = "true"
    /\ \E i \in resp.object_list : inventory[i].current_stock = inventory[i].reorder_level
    /\ \E i \in (DOMAIN inventory) \ resp.object_list :
           inventory[i].current_stock > inventory[i].reorder_level

\* the rows of the inventory change list that show the given levels
ShownWith(current_stock, reorder_level) ==
    {i \in DOMAIN resp'.is_low_stock :
        /\ inventory[i].current_stock = current_stock
        /\ inventory[i].reorder_level = reorder_level}

\* C21 as stated: an item with current_stock 5 and reorder_level 10 is shown
\* as low stock, an item with current_stock 10 and reorder_level 10 is not.
BoundaryItemNotLowStock ==
    [][resp'.view = "admin_site_inventory"
       => /\ \A i \in ShownWith(5, 10) : resp'.is_low_stock[i]
          /\ \A i \in ShownWith(10, 10) : ~resp'.is_low_stock[i]]_vars

\* C21 amended: an item with current_stock 5 and reorder_level 10 is shown
\* as low stock, and so is an item with current_stock 10 and reorder_level
\* 10 (the boundary is included).
BoundaryItemLowStock ==
    [][resp'.view = "admin_site_inventory"
       => /\ \A i \in ShownWith(5, 10) : resp'.is_low_stock[i]
          /\ \A i \in ShownWith(10, 10) : resp'.is_low_stock[i]]_vars

\* the change list shows an item at 5 of 10 and an item at 10 of 10
BothScenarioItemsShown ==
    /\ resp.view = "admin_site_inventory"
    /\ \E i, j \in DOMAIN resp.is_low_stock :
          /\ i \in DOMAIN inventory /\ j \in DOMAIN inventory
          /\ inventory[i].current_stock = 5 /\ inventory[i].reorder_level = 10
          /\ inventory[j].current_stock = 10 /\ inventory[j].reorder_level = 10

\* the rows a response shows: the list of a list view, the object of a
\* detail view
Shown ==
    IF resp'.result # "200" THEN {}
    ELSE IF resp'.view \in {"doctor_medical_record_detail", "patient_medical_record_detail",
                            "patient_bill_detail"}
    THEN {resp'.object}
    ELSE resp'.object_list

\* C22: whatever pk or patient parameter is supplied, the doctor's
\* medical-record and appointment views show only rows whose doctor is the
\* actor, and the patient's appointment, medical-record and bill views (list
\* and detail) show only rows whose patient is the actor.
OwnershipScoped ==
    [][/\ resp'.view \in {"doctor_medical_records", "doctor_medical_record_detail"}
           => \A r \in Shown : records[r].doctor = session
       /\ resp'.view = "doctor_appointments"
           => \A a \in Shown : appts[a].doctor = session
       /\ resp'.view = "patient_appointments"
           => \A a \in Shown : appts[a].patient = session
       /\ resp'.view \in {"patient_medical_records", "patient_medical_record_detail"}
           => \A r \in Shown : records[r].patient = session
       /\ resp'.view \in {"patient_bills", "patient_bill_detail"}
           => \A b \in Shown : bills[b].patient = session]_vars

\* a doctor asked for the records of a patient another doctor also treats:
\* the list shows the doctor's own record of that patient, not the other's
OtherDoctorsRecordHidden ==
    /\ resp.view = "doctor_medical_records"
    /\ resp.result = "200"
    /\ resp.patient # NoParam
    /\ resp.object_list # {}
    /\ \E r \in (DOMAIN records) \ resp.object_list :
           records[r].patient = resp.patient /\ records[r].doctor # session

\* C23: once the add_bill_item requests that ran side by side have all
\* finished, each bill's total_amount is the sum of total_price over the
\* items stored for it.
FinalTotalIsSumOfItems ==
    inflight = << >>
        => \A b \in DOMAIN bills :
               bills[b].total_amount = SumTotalPrice(items, ItemsOf(items, b))

\* a request of inflight run alone on a row: what update_appointment_status
\* stores (a reschedule whose save raises stores nothing)
RunAlone(row, e) ==
    CASE e.action = "confirm" -> confirmed(row)
      [] e.action = "cancel" -> cancelled(row)
      [] e.action = "reschedule" ->
            IF AppointmentSaveRaises(rescheduled(row, e.new_date, e.new_time)) THEN row
            ELSE rescheduled(row, e.new_date, e.new_time)

\* C24: when two update_appointment_status requests on one appointment have
\* both finished, the stored status, date and time are those of running the
\* two requests one after the other in one of the two orders.
TwoRequestsSerializable ==
    \A r1, r2 \in DOMAIN inflight :
        (/\ r1 # r2
         /\ inflight[r1].saved /\ inflight[r2].saved
         /\ inflight[r1].appt = inflight[r2].appt)
        => LET a == inflight[r1].appt
               X == ScopeAppts[a]
           IN appts[a] \in {RunAlone(RunAlone(X, inflight[r1]), inflight[r2]),
                            RunAlone(RunAlone(X, inflight[r2]), inflight[r1])}

\* C25: when two first requests to doctor_profile_edit (or to
\* patient_profile_edit) of one account both passed the existence check
\* before either inserted and both have finished, neither failed and the
\* account has its one profile.
FirstVisitsBothSucceed ==
    \A r1, r2 \in DOMAIN inflight :
        (/\ r1 # r2
         /\ inflight[r1].view = inflight[r2].view
         /\ inflight[r1].user = inflight[r2].user
         /\ inflight[r1].done /\ inflight[r2].done)
        => /\ ~inflight[r1].failed
           /\ ~inflight[r2].failed
           /\ inflight[r1].view = "doctor_profile_edit"
                  => inflight[r1].user \in DOMAIN doctor_profile
           /\ inflight[r1].view = "patient_profile_edit"
                  => inflight[r1].user \in patient_profile

\* C26: a register_view request that fails leaves every table as it was
\* before the request, and after every step each DOCTOR account has a
\* DoctorProfile and each PATIENT account a PatientProfile.
RegistrationAllOrNothing ==
    [][/\ (resp'.view = "register" /\ resp'.result = "500") => UNCHANGED database
       /\ \A u \in DOMAIN users' :
             /\ users'[u].role = "DOCTOR" => u \in DOMAIN doctor_profile'
             /\ users'[u].role = "PATIENT" => u \in patient_profile']_vars

\* C27: a reschedule posted by the assigned doctor with a missing or
\* malformed new_date or new_time is answered as a validation failure, not
\* as a server error and not as a success, and leaves every appointment as
\* it was.
InvalidRescheduleRejected ==
    [][\A id \in DOMAIN appts, new_date \in PostedDates, new_time \in PostedTimes :
          (/\ new_date \notin Dates \/ new_time \notin Times
           /\ FunctionViewGate(session, is_doctor(session)) = "permit"
           /\ appointment_found(session, id)
           /\ update_appointment_status(session, id, "POST", "reschedule", new_date, new_time))
          => /\ resp'.result # "500"
             /\ resp'.message # "Appointment rescheduled."
             /\ appts' = appts]_vars

\* the half of the statement above that is about the store: such a request
\* leaves every appointment as it was
InvalidRescheduleWritesNothing ==
    [][\A id \in DOMAIN appts, new_date \in PostedDates, new_time \in PostedTimes :
          (/\ new_date \notin Dates \/ new_time \notin Times
           /\ FunctionViewGate(session, is_doctor(session)) = "permit"
           /\ appointment_found(session, id)
           /\ update_appointment_status(session, id, "POST", "reschedule", new_date, new_time))
          => appts' = appts]_vars

\* C28: whenever the assigned doctor of a CONFIRMED appointment is logged
\* in, some portal request of theirs is possible whose effect is that the
\* appointment's status is COMPLETED.
CompletingActionAvailable ==
    \A id \in DOMAIN appts :
        (/\ appts[id].status = "CONFIRMED"
         /\ session = appts[id].doctor
         /\ FunctionViewGate(session, is_doctor(session)) = "permit")
        => ENABLED (NextWorkflow /\ appts'[id].status = "COMPLETED")

\* what the workflow operations give instead: no appointment is ever
\* COMPLETED
NoAppointmentCompleted == \A id \in DOMAIN appts : appts[id].status # "COMPLETED"

=============================================================================
